---- MODULE Spec2Model ----
(***************************************************************************)
(* A model of the concurrent download engine of downloader/main.py:        *)
(* the downloader coroutine (one per URL), the authentication prober, the  *)
(* rich progress registry as the code uses it, and cli_main.run, which     *)
(* starts the tasks, waits for them and handles an interrupt.              *)
(*                                                                         *)
(* Scheduling is asyncio's: one coroutine runs at a time, from one await   *)
(* to the next, so every action below is the code between two suspension   *)
(* points.  An interrupt is what asyncio.run makes of SIGINT: a cancel of  *)
(* the main task, seen as CancelledError at its await.                     *)
(***************************************************************************)
EXTENDS Integers, Sequences, FiniteSets, TLC

\* ------------------------------------------------------------- bounds
\* The URLs given, one task each.
NumTasks == 2
\* The chunks the servers deliver in one run, over all tasks.
MaxChunks == 4
\* The longest list of URLs given to cli_main.
MaxUrls == 4

\* -------------------------------------------------- program constants
ChunkSize == 256

Tasks == 1..NumTasks

\* The value None of an optional argument (rich's update leaves the field).
None == -1

\* What the servers of the model answer.  A WWW-Authenticate value is a
\* sequence of words; a Content-Length is absent, an integer or unparsable.
ProbeResponses ==
    { [status |-> 401, www |-> <<"Basic", "realm">>],
      [status |-> 401, www |-> <<"Digest", "realm">>],
      [status |-> 200, www |-> <<>>] }
Statuses == {200, 300, 404}
ContentLengths ==
    { [kind |-> "absent", n |-> 0],
      [kind |-> "bad", n |-> 0],
      [kind |-> "int", n |-> 1000] }
\* aiter_bytes(256) yields chunks of 256 bytes, and a shorter one only last.
LastSizes == {232}

VARIABLES
    authorisation,  \* cli_main's auth: "None" or "Global" (username, password)
    buffer,         \* --buffer
    orch,           \* where run() is
    mainCancel,     \* a CancelledError is due in run() (the interrupt)
    interrupted,    \* an interrupt was received
    awaitIdx,       \* the index of "for thread in threads: await thread"
    rendering,      \* the Progress live display is started
    thread,         \* per task: the coroutine's state
    cancelReq,      \* per task: Task.cancel() took effect, CancelledError is due
    progress,       \* the Progress registry: task id -> entry
    disk,           \* per task: its destination file
    username,       \* --username, "None" when not given
    password,       \* --password, "None" when not given
    given,          \* the URLs of the command line and of --from-list
    urls,           \* cli_main's urls, the list the loop of line 316 works on
    taskUrl,        \* per task: the url argument of its downloader
    timer,          \* run()'s timer: "none", or the state of the check_ram task
    timer_event,    \* run()'s timer_event is set
    WARNING_DISPLAYED  \* the global of line 31

vars == <<authorisation, buffer, orch, mainCancel, interrupted, awaitIdx,
          rendering, thread, cancelReq, progress, disk, username, password,
          given, urls, taskUrl, timer, timer_event, WARNING_DISPLAYED>>

cliVars == <<username, password, given, urls, taskUrl>>

timerVars == <<timer, timer_event, WARNING_DISPLAYED>>

orchVars == <<orch, mainCancel, interrupted, awaitIdx>>

\* ---------------------------------------------------------- helpers
Last(s) == s[Len(s)]

\* ------------------------------------------------- progress registry
NoEntry == [present |-> FALSE, description |-> <<>>, total |-> 0,
            completed |-> 0, started |-> FALSE]

\* progress.add_task(description, total=0, completed=0, start=False)
add_task(description) ==
    [present |-> TRUE, description |-> description, total |-> 0,
     completed |-> 0, started |-> FALSE]

\* progress.update(task, total=, completed=, description=): a None total
\* leaves the entry's total as it is.
update(e, total, completed, description) ==
    [e EXCEPT !.total = IF total # None /\ total # e.total THEN total ELSE e.total,
              !.completed = completed,
              !.description = description]

\* progress.start_task(task)
start_task(e) == [e EXCEPT !.started = TRUE]

\* progress.remove_task(task)
remove_task(e) == NoEntry

\* ------------------------------------------------------ write_file
NoHandle == [kind |-> "none", data |-> <<>>, pos |-> 0, closed |-> FALSE]

\* BytesIO() / file.open("wb+"): empty, position 0.
open_handle(kind) == [kind |-> kind, data |-> <<>>, pos |-> 0, closed |-> FALSE]

\* A write that leaves the position where it was.
handle_write_in_place(h, chunk) ==
    [h EXCEPT !.data = SubSeq(h.data, 1, h.pos) \o <<chunk>>]

\* write_file.write(chunk): at the position, which moves past the chunk.
\* (Every write of the code is at the end of the data.)
handle_write(h, chunk) ==
    [h EXCEPT !.data = SubSeq(h.data, 1, h.pos) \o <<chunk>>,
              !.pos = h.pos + 1]

\* write_file.read(): from the position to the end.
handle_read(h) == SubSeq(h.data, h.pos + 1, Len(h.data))

\* write_file.close()
handle_close(h) == [h EXCEPT !.closed = TRUE]

NoFile == [exists |-> FALSE, data |-> <<>>]

\* ------------------------------------------------- downloader state
Terminal == {"Completed", "StatusError", "LengthError", "Failed",
             "Interrupted", "Raised", "Cancelled"}

\* The awaits of downloader at which a CancelledError is delivered.
Suspended == {"created", "head", "probe_get", "get", "stream"}

NewThread ==
    [pc |-> "created",
     requests |-> <<>>,          \* the requests sent: <<method, credentials>>
     requiresAuth |-> FALSE,     \* what requires_authentication returned
     challenged |-> FALSE,       \* a probe saw 401 with a Basic challenge
     auth |-> "None",            \* the local authorisation
     reqAuth |-> "None",         \* the auth of req
     status |-> 0,
     length |-> [kind |-> "absent", n |-> 0],
     fileResolved |-> FALSE,
     chunks |-> <<>>,            \* the chunks the loop received
     num_bytes_downloaded |-> 0,
     write_file |-> NoHandle]

done(i) == thread[i].pc \in Terminal

\* A prompt that is awaited and lets the loop run.
PromptingAwaited == FALSE

\* The console is held by a credential prompt: input() blocks the loop.
Prompting == \E i \in Tasks : thread[i].pc = "prompt"

\* ------------------------------------------------------------- URLs
\* A URL string "http://<host>/<name>", with the newline that a line read
\* from --from-list ends with: the host's number, the characters of the last
\* path segment, and whether the newline is there.
Url(host, name, nl) == [host |-> host, name |-> name, nl |-> nl]

\* url.strip(), line 349.
strip(u) == [u EXCEPT !.nl = FALSE]

\* The characters of the model's names that [^\w\-.] does not match.
KeptChars == {"f", "1", "-", "."}

\* Lines 125-132: the name of the destination file, the last path segment
\* with every character outside [\w\-.] replaced by "-".
file_name(u) ==
    [k \in 1..Len(u.name) |-> IF u.name[k] \in KeptChars THEN u.name[k] ELSE "-"]

\* URLs whose file names differ: "f", "ff", ...
OwnNameUrl(i) == Url(1, [k \in 1..i |-> "f"], FALSE)

\* Distinct URLs whose file names are all "f-1": hosts differ, and the
\* segment is "f 1" or "f-1".
SameNameUrl(i) ==
    Url(i, <<"f", IF i % 2 = 1 THEN " " ELSE "-", "1">>, FALSE)

\* ------------------------------------------------------ check_ram
\* Lines 332 and 346-347: run()'s timer once the tasks are created.
timer_at_start(buffered) == IF buffered THEN "running" ELSE "none"

\* A finally that sets the event and leaves the task alone.
timer_left_running(t) == t

\* Lines 388-389: "if timer: timer.cancel()".
timer_after_finally(t) == IF t = "none" THEN t ELSE "cancelled"

\* run() as it waits for the tasks it created for these URLs (line 361).
InitRun(u) ==
    /\ authorisation \in {"None", "Global"}
    /\ buffer \in BOOLEAN
    /\ orch = "wait"
    /\ mainCancel = FALSE
    /\ interrupted = FALSE
    /\ awaitIdx = 0
    /\ rendering = TRUE
    /\ thread = [i \in Tasks |-> NewThread]
    /\ cancelReq = [i \in Tasks |-> FALSE]
    /\ progress = [i \in Tasks |-> NoEntry]
    /\ disk = [i \in Tasks |-> NoFile]
    /\ username = (IF authorisation = "None" THEN "None" ELSE "user")
    /\ password = (IF authorisation = "None" THEN "None" ELSE "secret")
    /\ given = u
    /\ urls = u
    /\ taskUrl = u
    /\ timer = timer_at_start(buffer)
    /\ timer_event = FALSE
    /\ WARNING_DISPLAYED = FALSE

\* Every task has a destination of its own.
Init == InitRun([i \in Tasks |-> OwnNameUrl(i)])

\* Distinct URLs, one destination.
InitSameName == InitRun([i \in Tasks |-> SameNameUrl(i)])

\* ------------------------------------------- requires_authentication
\* response.status_code == 401 and
\* response.headers.get("WWW-Authenticate", "").startswith("Basic")
is_basic_challenge(r) ==
    r.status = 401 /\ Len(r.www) > 0 /\ Head(r.www) = "Basic"

\* downloader up to its first await: the progress entry, req built with the
\* global authorisation, and the prober's HEAD.
Start(i) ==
    /\ thread[i].pc = "created"
    /\ ~cancelReq[i]
    /\ ~Prompting
    /\ progress' = [progress EXCEPT
                      ![i] = add_task(<<"Check authentication status of">>)]
    /\ thread' = [thread EXCEPT
                    ![i].pc = "head",
                    ![i].auth = authorisation,
                    ![i].reqAuth = authorisation,
                    ![i].requests = <<<<"HEAD", "None">>>>]
    /\ UNCHANGED <<cliVars, timerVars, authorisation, buffer, orchVars, rendering, cancelReq, disk>>

\* A prober that does not return at the challenge and sends its GET too.
SendAuthenticatedGetAfterProbe(t, creds) ==
    [t EXCEPT !.pc = "get",
              !.requiresAuth = TRUE,
              !.challenged = TRUE,
              !.auth = creds,
              !.reqAuth = creds,
              !.requests = Append(Append(t.requests, <<"GET", "None">>),
                                  <<"GET", creds>>)]

\* Lines 82-96 once the prober returned True with credentials at hand: req is
\* rebuilt with them and the real GET is sent.
SendAuthenticatedGet(t, creds) ==
    [t EXCEPT !.pc = "get",
              !.requiresAuth = TRUE,
              !.challenged = TRUE,
              !.auth = creds,
              !.reqAuth = creds,
              !.requests = Append(t.requests, <<"GET", creds>>)]

\* Lines 93-96 once the prober returned False: req is the one built at
\* line 80, with the global authorisation.
SendPlainGet(t) ==
    [t EXCEPT !.pc = "get",
              !.requiresAuth = FALSE,
              !.requests = Append(t.requests, <<"GET", t.reqAuth>>)]

\* The HEAD answers.
HeadResponse(i) ==
    /\ thread[i].pc = "head"
    /\ ~cancelReq[i]
    /\ ~Prompting
    /\ \E r \in ProbeResponses :
         IF is_basic_challenge(r)
         THEN IF thread[i].auth = "None"
              THEN /\ thread' = [thread EXCEPT ![i].pc = "prompt",
                                               ![i].requiresAuth = TRUE,
                                               ![i].challenged = TRUE]
                   /\ rendering' = FALSE
              ELSE /\ thread' = [thread EXCEPT
                                   ![i] = SendAuthenticatedGet(@, @.auth)]
                   /\ UNCHANGED rendering
         ELSE /\ thread' = [thread EXCEPT
                              ![i].pc = "probe_get",
                              ![i].requests = Append(@, <<"GET", "None">>)]
              /\ UNCHANGED rendering
    /\ UNCHANGED <<cliVars, timerVars, authorisation, buffer, orchVars, cancelReq, progress, disk>>

\* The prober's streamed GET answers and is closed unread.
ProbeGetResponse(i) ==
    /\ thread[i].pc = "probe_get"
    /\ ~cancelReq[i]
    /\ ~Prompting
    /\ \E r \in ProbeResponses :
         IF is_basic_challenge(r)
         THEN IF thread[i].auth = "None"
              THEN /\ thread' = [thread EXCEPT ![i].pc = "prompt",
                                               ![i].requiresAuth = TRUE,
                                               ![i].challenged = TRUE]
                   /\ rendering' = FALSE
              ELSE /\ thread' = [thread EXCEPT
                                   ![i] = SendAuthenticatedGet(@, @.auth)]
                   /\ UNCHANGED rendering
         ELSE /\ thread' = [thread EXCEPT ![i] = SendPlainGet(@)]
              /\ UNCHANGED rendering
    /\ UNCHANGED <<cliVars, timerVars, authorisation, buffer, orchVars, cancelReq, progress, disk>>

\* A transport error in the prober (HEAD or GET): line 81 is outside the
\* try, so the exception ends the task; its progress entry stays.
ProbeError(i) ==
    /\ thread[i].pc \in {"head", "probe_get"}
    /\ ~cancelReq[i]
    /\ ~Prompting
    /\ thread' = [thread EXCEPT ![i].pc = "Raised"]
    /\ UNCHANGED <<cliVars, timerVars, authorisation, buffer, orchVars, rendering, cancelReq,
                   progress, disk>>

\* The operator answers the prompt: rendering resumes, the credentials are
\* the task's own, req is rebuilt with them and the real GET is sent.
Prompt(i) ==
    /\ thread[i].pc = "prompt"
    /\ rendering' = TRUE
    /\ thread' = [thread EXCEPT ![i] = SendAuthenticatedGet(@, "Prompted")]
    /\ UNCHANGED <<cliVars, timerVars, authorisation, buffer, orchVars, cancelReq, progress, disk>>

\* ------------------------------------------------------ the real GET
\* The range closed at 300.
status_ok_to_300(status) == status >= 200 /\ status <= 300

\* response.status_code in range(200, 300)
status_ok(status) == status >= 200 /\ status < 300

\* The destination opened whatever the mode.
file_after_open_always(f, buffered) == [exists |-> TRUE, data |-> <<>>]

\* Lines 166-169: the destination file once write_file is set up.  Only the
\* direct mode opens it here ("wb+": created, emptied).
file_after_open(f, buffered) ==
    IF buffered THEN f ELSE [exists |-> TRUE, data |-> <<>>]

\* A Content-Length that is taken as it comes.
length_parses_always(cl) == TRUE

\* Lines 143-151: int(length) raises for a header that is not an integer;
\* an absent header is None and is not parsed.
length_parses(cl) == cl.kind # "bad"

\* Lines 96-169 for a response with this status and Content-Length.
OnResponse(i, status, cl) ==
    LET t == [thread[i] EXCEPT !.status = status]
        e == start_task(progress[i])
    IN  IF ~status_ok(status)
        THEN /\ progress' = [progress EXCEPT
                               ![i] = update(e, 1, 1, <<"Get", "status">>)]
             /\ thread' = [thread EXCEPT ![i] = [t EXCEPT !.pc = "StatusError"]]
             /\ UNCHANGED disk
        ELSE IF ~length_parses(cl)
        THEN /\ progress' = [progress EXCEPT
                               ![i] = update(e, 1, 1, <<"Get", "failed!">>)]
             /\ thread' = [thread EXCEPT
                             ![i] = [t EXCEPT !.pc = "LengthError",
                                              !.fileResolved = TRUE,
                                              !.length = cl]]
             /\ UNCHANGED disk
        ELSE /\ progress' = [progress EXCEPT
                               ![i] = update(e,
                                             IF cl.kind = "int" THEN cl.n ELSE None,
                                             0, <<"Get", "file">>)]
             /\ thread' = [thread EXCEPT
                             ![i] = [t EXCEPT
                                       !.pc = "stream",
                                       !.fileResolved = TRUE,
                                       !.length = cl,
                                       !.write_file =
                                           open_handle(IF buffer THEN "BytesIO"
                                                                 ELSE "file")]]
             /\ disk' = [disk EXCEPT ![i] = file_after_open(@, buffer)]

\* The real GET answers with a status outside [200, 300).
GetStatusError(i) ==
    /\ thread[i].pc = "get"
    /\ ~cancelReq[i]
    /\ ~Prompting
    /\ \E status \in {s \in Statuses : ~status_ok(s)} :
         OnResponse(i, status, [kind |-> "absent", n |-> 0])
    /\ UNCHANGED <<cliVars, timerVars, authorisation, buffer, orchVars, rendering, cancelReq>>

\* The real GET answers 2xx with some Content-Length.
GetResponse(i) ==
    /\ thread[i].pc = "get"
    /\ ~cancelReq[i]
    /\ ~Prompting
    /\ \E status \in {s \in Statuses : status_ok(s)}, cl \in ContentLengths :
         OnResponse(i, status, cl)
    /\ UNCHANGED <<cliVars, timerVars, authorisation, buffer, orchVars, rendering, cancelReq>>

\* A transport error while the real GET is sent (lines 213-228): the file was
\* never resolved and write_file is unbound.
GetError(i) ==
    /\ thread[i].pc = "get"
    /\ ~cancelReq[i]
    /\ ~Prompting
    /\ progress' = [progress EXCEPT ![i] = remove_task(@)]
    /\ thread' = [thread EXCEPT ![i].pc = "Failed"]
    /\ UNCHANGED <<cliVars, timerVars, authorisation, buffer, orchVars, rendering, cancelReq, disk>>

\* ------------------------------------------------------ the chunk loop
\* The total set to the bytes downloaded, whatever it was.
new_total_downloaded(total, downloaded) == downloaded

\* Lines 175-179: the total handed to progress.update.
new_total(total, downloaded) ==
    IF total <= downloaded THEN downloaded ELSE total

\* The destination file after a write through a handle on it.
file_after_write(f, h) ==
    IF h.kind = "file" THEN [f EXCEPT !.data = h.data] ELSE f

\* The chunks delivered so far to the tasks 1..k.
RECURSIVE ChunksDelivered(_)
ChunksDelivered(k) ==
    IF k = 0 THEN 0 ELSE Len(thread[k].chunks) + ChunksDelivered(k - 1)

\* aiter_bytes(256) has yielded its short last chunk.
stream_exhausted(chunks) ==
    IF chunks = <<>> THEN FALSE ELSE Last(chunks).size < ChunkSize

\* One turn of "async for chunk in response.aiter_bytes(256)" (lines 172-190).
Chunk(i) ==
    /\ thread[i].pc = "stream"
    /\ ~cancelReq[i]
    /\ ~Prompting
    /\ ChunksDelivered(NumTasks) < MaxChunks
    /\ ~stream_exhausted(thread[i].chunks)
    /\ \E size \in {ChunkSize} \cup LastSizes :
         LET chunk == [seq |-> Len(thread[i].chunks) + 1, size |-> size]
             h == handle_write(thread[i].write_file, chunk)
             n == thread[i].num_bytes_downloaded + size
         IN  /\ thread' = [thread EXCEPT
                             ![i].chunks = Append(@, chunk),
                             ![i].num_bytes_downloaded = n,
                             ![i].write_file = h]
             /\ disk' = [disk EXCEPT ![i] = file_after_write(@, h)]
             /\ progress' = [progress EXCEPT
                               ![i] = update(@, new_total(@.total, n), n,
                                             <<"Get", "file">>)]
    /\ UNCHANGED <<cliVars, timerVars, authorisation, buffer, orchVars, rendering, cancelReq>>

\* Lines 209-211: what the destination file holds after the stream ended.
\* In buffered mode the file is opened "wb+" and given write_file.read().
persist(f, h) ==
    IF h.kind = "BytesIO"
    THEN [exists |-> TRUE, data |-> handle_read(h)]
    ELSE f

\* The stream ends normally (lines 208-212).
StreamEnd(i) ==
    /\ thread[i].pc = "stream"
    /\ ~cancelReq[i]
    /\ ~Prompting
    /\ disk' = [disk EXCEPT ![i] = persist(@, thread[i].write_file)]
    /\ thread' = [thread EXCEPT ![i].pc = "Completed",
                                ![i].write_file = handle_close(@)]
    /\ UNCHANGED <<cliVars, timerVars, authorisation, buffer, orchVars, rendering, cancelReq,
                   progress>>

\* ReadError, TimeoutException or ConnectError in the loop (lines 199-207).
StreamError(i) ==
    /\ thread[i].pc = "stream"
    /\ ~cancelReq[i]
    /\ ~Prompting
    /\ progress' = [progress EXCEPT ![i] = remove_task(@)]
    /\ thread' = [thread EXCEPT ![i].pc = "Failed",
                                ![i].write_file = handle_close(@)]
    /\ UNCHANGED <<cliVars, timerVars, authorisation, buffer, orchVars, rendering, cancelReq, disk>>

\* KeyboardInterrupt or RuntimeError in the loop (lines 191-198).
StreamInterrupted(i) ==
    /\ thread[i].pc = "stream"
    /\ ~cancelReq[i]
    /\ ~Prompting
    /\ thread' = [thread EXCEPT ![i].pc = "Interrupted",
                                ![i].write_file = handle_close(@)]
    /\ UNCHANGED <<cliVars, timerVars, authorisation, buffer, orchVars, rendering, cancelReq,
                   progress, disk>>

\* A requested cancellation reaches the task at its await: no except clause
\* of downloader names CancelledError, so it ends the task.
TaskCancelled(i) ==
    /\ thread[i].pc \in Suspended
    /\ cancelReq[i]
    /\ ~Prompting
    /\ thread' = [thread EXCEPT ![i].pc = "Cancelled"]
    /\ UNCHANGED <<cliVars, timerVars, authorisation, buffer, orchVars, rendering, cancelReq,
                   progress, disk>>

\* ------------------------------------------------------ cli_main.run
\* A wait that raises a task's exception into run(), as asyncio.gather does.
WaitRaisesTaskError ==
    mainCancel \/ \E i \in Tasks : thread[i].pc = "Raised"

\* Whether "await asyncio.wait(threads, return_when=ALL_COMPLETED)" raises
\* into run(): only when run() itself is cancelled.  asyncio.wait collects
\* the tasks' exceptions and raises none of them.
WaitRaises == mainCancel

\* What thread.exception() does (line 376).
thread_exception(t) ==
    CASE t.pc = "Cancelled" -> "CancelledError"
      [] t.pc = "Raised" -> "exception"
      [] t.pc \in Terminal -> "None"
      [] OTHER -> "InvalidStateError"

\* Lines 375-381: whether the loop reaches thread.cancel() for this thread.
cancel_reached(t) == thread_exception(t) = "None"

\* Lines 364-371: the entry after the pass over progress.tasks.
mark_cancelled(e) ==
    IF e.present /\ e.completed # e.total
    THEN update(e, e.total, e.total, Append(e.description, "(cancelled)"))
    ELSE e

\* The first thread whose exception() raises CancelledError, which no except
\* clause of the loop names; NumTasks + 1 when there is none.
FirstCancelled ==
    IF \E i \in Tasks : thread_exception(thread[i]) = "CancelledError"
    THEN CHOOSE i \in Tasks :
           /\ thread_exception(thread[i]) = "CancelledError"
           /\ \A j \in Tasks :
                thread_exception(thread[j]) = "CancelledError" => i <= j
    ELSE NumTasks + 1

\* Lines 386-389, the finally of run(): on every way out of the try.
run_finally ==
    /\ timer_event' = TRUE
    /\ timer' = timer_after_finally(timer)
    /\ UNCHANGED WARNING_DISPLAYED

\* One turn of check_ram's loop (lines 37-50): the loop ends once the event
\* is set; otherwise the memory is read and the warning raised or resolved.
\* A cancelled watchdog takes no step.
WatchdogPoll ==
    /\ timer = "running"
    /\ ~Prompting
    /\ IF timer_event
       THEN timer' = "finished" /\ UNCHANGED WARNING_DISPLAYED
       ELSE /\ \E low \in BOOLEAN : WARNING_DISPLAYED' = low
            /\ UNCHANGED timer
    /\ UNCHANGED <<cliVars, timer_event, authorisation, buffer, orchVars,
                   rendering, thread, cancelReq, progress, disk>>

\* SIGINT while run() waits: asyncio.run cancels the main task.
Sigint ==
    /\ orch = "wait"
    /\ ~interrupted
    /\ interrupted' = TRUE
    /\ mainCancel' = TRUE
    /\ UNCHANGED <<cliVars, timerVars, authorisation, buffer, orch, awaitIdx, rendering, thread,
                   cancelReq, progress, disk>>

\* All tasks are done and asyncio.wait returns: run() leaves through finally
\* and the Progress context stops rendering.
OrchWaitDone ==
    /\ orch = "wait"
    /\ ~WaitRaises
    /\ ~Prompting
    /\ \A i \in Tasks : done(i)
    /\ orch' = "returned"
    /\ rendering' = FALSE
    /\ run_finally
    /\ UNCHANGED <<cliVars, authorisation, buffer, mainCancel, interrupted,
                   awaitIdx, thread, cancelReq, progress, disk>>

\* The except clause of run(), lines 362-381, up to the first await.
OrchExcept ==
    /\ orch = "wait"
    /\ WaitRaises
    /\ ~Prompting
    /\ mainCancel' = FALSE
    /\ progress' = [i \in Tasks |-> mark_cancelled(progress[i])]
    /\ rendering' = FALSE
    \* Task.cancel() does nothing to a task that is done.
    /\ cancelReq' = [i \in Tasks |->
                       cancelReq[i]
                       \/ (i < FirstCancelled /\ cancel_reached(thread[i])
                           /\ ~done(i))]
    /\ IF FirstCancelled <= NumTasks
       THEN orch' = "raised" /\ awaitIdx' = 0 /\ run_finally
       ELSE orch' = "awaiting" /\ awaitIdx' = 1 /\ UNCHANGED timerVars
    /\ UNCHANGED <<cliVars, authorisation, buffer, interrupted, thread, disk>>

\* Lines 383-385: "await thread" returns for a task that returned, raises the
\* task's exception for one that raised or was cancelled, and after the last
\* thread run() raises Abort.
OrchAwait ==
    /\ orch = "awaiting"
    /\ ~Prompting
    /\ done(awaitIdx)
    /\ IF thread[awaitIdx].pc \in {"Raised", "Cancelled"}
       THEN orch' = "raised" /\ UNCHANGED awaitIdx /\ run_finally
       ELSE IF awaitIdx = NumTasks
       THEN orch' = "aborted" /\ UNCHANGED awaitIdx /\ run_finally
       ELSE orch' = "awaiting" /\ awaitIdx' = awaitIdx + 1
            /\ UNCHANGED timerVars
    /\ UNCHANGED <<cliVars, authorisation, buffer, mainCancel, interrupted,
                   rendering, thread, cancelReq, progress, disk>>

\* asyncio.run(run()), line 391: once run() has ended, the runner cancels the
\* tasks that are still pending and runs the loop until they are done.
RunnerCancelAll ==
    /\ orch \in {"returned", "aborted", "raised"}
    /\ ~Prompting
    /\ \E i \in Tasks : ~done(i) /\ ~cancelReq[i]
    /\ cancelReq' = [i \in Tasks |-> cancelReq[i] \/ ~done(i)]
    /\ UNCHANGED <<cliVars, timerVars, authorisation, buffer, orchVars, rendering, thread,
                   progress, disk>>

TaskStep(i) ==
    \/ Start(i)
    \/ HeadResponse(i)
    \/ ProbeGetResponse(i)
    \/ ProbeError(i)
    \/ Prompt(i)
    \/ GetStatusError(i)
    \/ GetResponse(i)
    \/ GetError(i)
    \/ Chunk(i)
    \/ StreamEnd(i)
    \/ StreamError(i)
    \/ StreamInterrupted(i)
    \/ TaskCancelled(i)

Next ==
    \/ \E i \in Tasks : TaskStep(i)
    \/ Sigint
    \/ OrchWaitDone
    \/ OrchExcept
    \/ OrchAwait
    \/ RunnerCancelAll
    \/ WatchdogPoll

Spec == Init /\ [][Next]_vars

\* The same run for distinct URLs that resolve to one file name.
SpecSameName == InitSameName /\ [][Next]_vars

\* ------------------------------------------- cli_main up to the wait
\* The URL strings of the command line: two URLs, each with and without the
\* newline of a --from-list line.
RawUrls == { Url(h, <<"f">>, nl) : h \in 1..2, nl \in BOOLEAN }

UrlLists == UNION { [1..n -> RawUrls] : n \in 0..MaxUrls }

Usernames == {"None", "user"}
Passwords == {"None", "secret"}

\* type(x) for an option that is None or a str.
py_type(x) == IF x = "None" THEN "NoneType" ELSE "str"

\* A check that only asks for the password of a given username.
credentials_rejected_without_password(u, p) == u # "None" /\ p = "None"

\* Line 306: type(username) != type(password)
credentials_rejected(u, p) == py_type(u) # py_type(p)

\* list.count(x)
count(l, x) == Cardinality({k \in DOMAIN l : l[k] = x})

\* list.index(x): the first position of x.
index(l, x) == CHOOSE k \in DOMAIN l : l[k] = x /\ \A j \in 1..(k - 1) : l[j] # x

\* list.pop(k)
pop(l, k) == SubSeq(l, 1, k - 1) \o SubSeq(l, k + 1, Len(l))

\* Lines 316-319 from the iterator's position i on: the for statement reads
\* the list it is popping from, one position further at every turn.
RECURSIVE dedup_loop(_, _)
dedup_loop(l, i) ==
    IF i > Len(l)
    THEN l
    ELSE IF count(l, l[i]) # 1
         THEN dedup_loop(pop(l, index(l, l[i])), i + 1)
         ELSE dedup_loop(l, i + 1)

\* cli_main is called with these options and URLs.
InitCli ==
    /\ username \in Usernames
    /\ password \in Passwords
    /\ buffer \in BOOLEAN
    /\ given \in UrlLists
    /\ urls = given
    /\ authorisation = "Unbound"
    /\ orch = "options"
    /\ mainCancel = FALSE
    /\ interrupted = FALSE
    /\ awaitIdx = 0
    /\ rendering = FALSE
    /\ thread = <<>>
    /\ cancelReq = <<>>
    /\ progress = <<>>
    /\ disk = <<>>
    /\ taskUrl = <<>>
    /\ timer = "none"
    /\ timer_event = FALSE
    /\ WARNING_DISPLAYED = FALSE

\* Lines 306-314: the username and password go together, and there is a URL.
CheckOptions ==
    /\ orch = "options"
    /\ IF credentials_rejected(username, password)
       THEN orch' = "BadOptionUsage" /\ UNCHANGED authorisation
       ELSE /\ authorisation' = (IF username = "None" /\ password = "None"
                                 THEN "None" ELSE "Global")
            /\ orch' = (IF urls = <<>> THEN "BadArgumentUsage" ELSE "dedup")
    /\ UNCHANGED <<cliVars, timerVars, buffer, mainCancel, interrupted,
                   awaitIdx, rendering, thread, cancelReq, progress, disk>>

\* Lines 316-319: the duplicates are taken out of urls.
Dedup ==
    /\ orch = "dedup"
    /\ urls' = dedup_loop(urls, 1)
    /\ orch' = "run"
    /\ UNCHANGED <<username, password, given, taskUrl, timerVars,
                   authorisation, buffer, mainCancel, interrupted, awaitIdx,
                   rendering, thread, cancelReq, progress, disk>>

\* Lines 330-359: run() up to its wait: the Progress display, the watchdog in
\* buffered mode, and one downloader task for every element of urls.
CreateTasks ==
    /\ orch = "run"
    /\ rendering' = TRUE
    /\ timer' = timer_at_start(buffer)
    /\ taskUrl' = [n \in DOMAIN urls |-> strip(urls[n])]
    /\ thread' = [n \in DOMAIN urls |-> NewThread]
    /\ cancelReq' = [n \in DOMAIN urls |-> FALSE]
    /\ progress' = [n \in DOMAIN urls |-> NoEntry]
    /\ disk' = [n \in DOMAIN urls |-> NoFile]
    /\ orch' = "wait"
    /\ UNCHANGED <<username, password, given, urls, timer_event,
                   WARNING_DISPLAYED, authorisation, buffer, mainCancel,
                   interrupted, awaitIdx>>

NextCli ==
    \/ CheckOptions
    \/ Dedup
    \/ CreateTasks

\* cli_main from its call to run()'s wait, for every list of up to MaxUrls
\* URL strings.
SpecCli == InitCli /\ [][NextCli]_vars

\* ==================================================================
\* Claims
\* ==================================================================
Max(a, b) == IF a >= b THEN a ELSE b

\* The bytes of a sequence of chunks.
RECURSIVE SumSizes(_)
SumSizes(s) == IF s = <<>> THEN 0 ELSE Head(s).size + SumSizes(Tail(s))

EndsCancelled(e) ==
    Len(e.description) > 0 /\ Last(e.description) = "(cancelled)"

\* run() has gone through its except clause.
OnCancellationPath == orch \in {"awaiting", "aborted", "raised"}

\* run() has left its cancellation path.
LeftCancellationPath == orch \in {"aborted", "raised"}

\* C1: once run() has handled the interrupt (it is past the loop of lines
\* 374-381), every task that has started and is not done has a cancellation
\* request.
C1_EveryRunningTaskCancelled ==
    orch = "awaiting"
    => \A i \in Tasks :
         thread[i].pc = "created" \/ done(i) \/ cancelReq[i]

\* C2: the handler's step leaves the entry of every task that is not done
\* with a description ending in "(cancelled)", entries whose total is 0
\* included, and no later step takes that suffix away.
C2_UnfinishedEntriesEndCancelled ==
    [][ /\ (orch = "wait" /\ orch' # "wait" /\ orch' # "returned")
           => \A i \in Tasks :
                (~done(i) /\ progress[i].present) => EndsCancelled(progress'[i])
        /\ \A i \in Tasks :
             (OnCancellationPath /\ EndsCancelled(progress[i]))
             => EndsCancelled(progress'[i]) ]_vars

\* C3: when run() has left its cancellation path, every task is done.
C3_ExitOnlyAfterAllTasksStopped ==
    LeftCancellationPath => \A i \in Tasks : done(i)

\* C4: in buffered mode a completed task's destination file holds the
\* chunks received, in order.
C4_BufferedFileHoldsAllChunks ==
    \A i \in Tasks :
        (buffer /\ thread[i].pc = "Completed")
        => (disk[i].exists /\ disk[i].data = thread[i].chunks)

C6_BufferedNoFileBeforeEnd ==
    \A i \in Tasks :
        (buffer /\ thread[i].pc # "Completed") => disk[i] = NoFile

\* C6's case: a buffered transfer cancelled after it received chunks.
C6_Witness ==
    \E i \in Tasks :
        /\ buffer
        /\ thread[i].pc = "Cancelled"
        /\ Len(thread[i].chunks) >= 2
        /\ disk[i] = NoFile

\* The Content-Length the entry's total starts from: 0 when it is absent.
Declared(i) ==
    IF thread[i].length.kind = "int" THEN thread[i].length.n ELSE 0

\* C7: every chunk leaves the entry's completed at the bytes received and its
\* total at the larger of its previous total and the bytes received; while
\* the task transfers, total never decreases, completed <= total, and total
\* is the larger of the declared length and the bytes received.
C7_ProgressFollowsChunks ==
    /\ [][ \A i \in Tasks :
             /\ thread'[i].num_bytes_downloaded # thread[i].num_bytes_downloaded
                => /\ progress'[i].completed = thread'[i].num_bytes_downloaded
                   /\ progress'[i].total =
                        Max(progress[i].total, thread'[i].num_bytes_downloaded)
             /\ (thread[i].pc = "stream" /\ thread'[i].pc = "stream")
                => progress'[i].total >= progress[i].total ]_vars
    /\ [](\A i \in Tasks :
            thread[i].pc = "stream"
            => /\ progress[i].completed <= progress[i].total
               /\ progress[i].total =
                    Max(Declared(i), thread[i].num_bytes_downloaded))

\* C7's case: more bytes received than the declared 1000.
C7_Witness ==
    \E i \in Tasks :
        /\ thread[i].pc = "stream"
        /\ thread[i].length = [kind |-> "int", n |-> 1000]
        /\ thread[i].num_bytes_downloaded = 1024
        /\ progress[i].total = 1024
        /\ progress[i].completed = 1024

\* The step in which task i fails on its own.
FailureStep(i) ==
    /\ ~done(i)
    /\ thread'[i].pc \in {"StatusError", "LengthError", "Failed", "Raised"}

\* C8: a step in which a task fails changes nothing of a sibling (its
\* coroutine, its cancellation request, its progress entry, its file) and
\* does not move run(); run() is on its cancellation path only after an
\* interrupt; and without an interrupt no task is ever cancelled.
C8_FailureStaysLocal ==
    /\ [][ \A i \in Tasks :
             FailureStep(i)
             => /\ orch' = orch
                /\ mainCancel' = mainCancel
                /\ \A j \in Tasks \ {i} :
                     /\ thread'[j] = thread[j]
                     /\ cancelReq'[j] = cancelReq[j]
                     /\ progress'[j] = progress[j]
                     /\ disk'[j] = disk[j] ]_vars
    /\ [](OnCancellationPath => interrupted)
    /\ [](~interrupted
          => \A j \in Tasks : ~cancelReq[j] /\ thread[j].pc # "Cancelled")

\* C8's case: a task failed in the prober, its sibling completed, and run()
\* returned without an interrupt.
C8_Witness ==
    /\ orch = "returned"
    /\ ~interrupted
    /\ \E i, j \in Tasks :
         /\ thread[i].pc = "Raised"
         /\ thread[j].pc = "Completed"
         /\ Len(thread[j].chunks) >= 1

\* C9: a task whose real GET was answered with a status outside [200, 300)
\* has ended, its entry at completed = total = 1 with the status description,
\* no chunk read, no file path resolved, no write_file and no file.
C9_StatusErrorEndsTask ==
    \A i \in Tasks :
        (thread[i].status # 0
         /\ (thread[i].status < 200 \/ thread[i].status >= 300))
        => /\ thread[i].pc = "StatusError"
           /\ progress[i].present
           /\ progress[i].completed = 1
           /\ progress[i].total = 1
           /\ progress[i].description = <<"Get", "status">>
           /\ thread[i].chunks = <<>>
           /\ thread[i].num_bytes_downloaded = 0
           /\ ~thread[i].fileResolved
           /\ thread[i].write_file = NoHandle
           /\ disk[i] = NoFile

\* C9's case: a 300 and a 404.
C9_Witness ==
    \E i, j \in Tasks :
        /\ thread[i].pc = "StatusError" /\ thread[i].status = 300
        /\ thread[j].pc = "StatusError" /\ thread[j].status = 404

\* C10: a request carries credentials only if the prober saw a 401 with a
\* Basic challenge.
C10_CredentialsOnlyOnChallenge ==
    \A i \in Tasks :
        \A k \in DOMAIN thread[i].requests :
            thread[i].requests[k][2] # "None" => thread[i].challenged

\* The requests of a task whose HEAD probe met the Basic challenge while the
\* username and password were supplied.
ProbeThenAuthenticatedGet == << <<"HEAD", "None">>, <<"GET", "Global">> >>

\* C11: with username and password supplied, the step in which the HEAD
\* probe of a task is answered by a 401 with a Basic challenge sends the GET
\* with the credentials, so that the task has sent two requests, the
\* unauthenticated probe and that GET; and once its real GET is out a task
\* sends no further request.
C11_TwoRequestsOnChallenge ==
    [][ \A i \in Tasks :
          /\ (authorisation = "Global"
              /\ thread[i].pc = "head"
              /\ thread'[i].challenged)
             => thread'[i].requests = ProbeThenAuthenticatedGet
          /\ thread[i].pc \notin {"created", "head", "probe_get", "prompt"}
             => thread'[i].requests = thread[i].requests ]_vars

\* C11's case: such a task, its GET answered with 200, completed with a body.
C11_Witness ==
    \E i \in Tasks :
        /\ authorisation = "Global"
        /\ thread[i].pc = "Completed"
        /\ thread[i].status = 200
        /\ thread[i].requests = ProbeThenAuthenticatedGet
        /\ Len(thread[i].chunks) >= 1

\* C12: once the tasks are created, no URL is the url of two tasks and every
\* URL given is the url of a task.
C12_OneTaskPerDistinctUrl ==
    orch = "wait"
    => /\ \A m, n \in DOMAIN taskUrl :
            m # n => taskUrl[m] # taskUrl[n]
       /\ { taskUrl[n] : n \in DOMAIN taskUrl }
            = { strip(given[k]) : k \in DOMAIN given }

\* A list without the occurrences of an element that follow its first one.
RECURSIVE KeepFirst(_)
KeepFirst(l) ==
    IF l = <<>>
    THEN <<>>
    ELSE LET front == KeepFirst(SubSeq(l, 1, Len(l) - 1))
         IN  IF \E k \in 1..(Len(l) - 1) : l[k] = l[Len(l)]
             THEN front
             ELSE Append(front, l[Len(l)])

\* C13: the list the tasks are created from is the list given without the
\* occurrences of a URL that follow its first one.
C13_FirstOccurrenceKept ==
    orch \in {"run", "wait"} => urls = KeepFirst(given)

\* Exactly one of the username and the password is given.
OneOfUserAndPassword == (username = "None") # (password = "None")

\* C14: with exactly one of username and password given cli_main gets no
\* further than its usage error, and no task exists; with both or neither
\* that error is not raised.
C14_UsernameNeedsPassword ==
    /\ OneOfUserAndPassword
       => /\ orch \in {"options", "BadOptionUsage"}
          /\ thread = <<>>
          /\ taskUrl = <<>>
    /\ ~OneOfUserAndPassword => orch # "BadOptionUsage"

\* C14's case: a password without a username, and URLs, rejected.
C14_Witness ==
    /\ username = "None"
    /\ password = "secret"
    /\ given # <<>>
    /\ orch = "BadOptionUsage"
    /\ thread = <<>>

\* A transport error has hit the task: in the prober, at the real GET or in
\* the chunk loop.
HitByTransportError(i) == thread[i].pc \in {"Raised", "Failed"}

\* C15: a task that a transport error has hit has returned as Failed, its
\* progress entry is removed and its write_file, if it opened one, is closed.
C15_TransportErrorEndsFailed ==
    \A i \in Tasks :
        HitByTransportError(i)
        => /\ thread[i].pc = "Failed"
           /\ ~progress[i].present
           /\ (thread[i].write_file.kind # "none"
               => thread[i].write_file.closed)

\* C16: the progress entry of a completed task has completed = total.
C16_CompletedEntryIsFull ==
    \A i \in Tasks :
        thread[i].pc = "Completed"
        => /\ progress[i].present
           /\ progress[i].completed = progress[i].total

\* C17: a task whose response had a Content-Length that is no integer has
\* ended; its entry is at completed = total = 1 with the failure description,
\* it read no chunk, and it opened no write_file and no file.
C17_BadLengthEndsTask ==
    \A i \in Tasks :
        thread[i].length.kind = "bad"
        => /\ thread[i].pc = "LengthError"
           /\ progress[i].present
           /\ progress[i].completed = 1
           /\ progress[i].total = 1
           /\ progress[i].description = <<"Get", "failed!">>
           /\ thread[i].chunks = <<>>
           /\ thread[i].num_bytes_downloaded = 0
           /\ thread[i].write_file = NoHandle
           /\ disk[i] = NoFile

\* C17's case: such a task next to one that transfers.
C17_Witness ==
    \E i, j \in Tasks :
        /\ thread[i].length.kind = "bad"
        /\ thread[i].status = 200
        /\ thread[i].pc = "LengthError"
        /\ thread[j].pc = "stream"
        /\ Len(thread[j].chunks) >= 1

\* Task i runs and holds an open handle on its destination file.
HoldsFile(i) ==
    /\ ~done(i)
    /\ thread[i].write_file.kind = "file"
    /\ ~thread[i].write_file.closed

\* C18: two running tasks that both hold an open handle on their
\* destination file have different destination files.
C18_OneWriterPerFile ==
    \A i, j \in Tasks :
        (i # j /\ HoldsFile(i) /\ HoldsFile(j))
        => file_name(taskUrl[i]) # file_name(taskUrl[j])

\* C19: while a task prompts, rendering is stopped; a step taken meanwhile
\* changes no other task and not the global credentials; the step that ends
\* the prompt resumes rendering and gives the credentials to that task; and
\* a task gets prompted credentials only by ending its own prompt.
C19_PromptHoldsTheConsole ==
    /\ [](\A i \in Tasks : thread[i].pc = "prompt" => ~rendering)
    /\ [][ \A i \in Tasks :
             /\ thread[i].pc = "prompt"
                => /\ authorisation' = authorisation
                   /\ \A j \in Tasks \ {i} : thread'[j] = thread[j]
                   /\ thread'[i].pc # "prompt"
                      => /\ rendering'
                         /\ thread'[i].auth = "Prompted"
             /\ (thread'[i].auth = "Prompted" /\ thread[i].auth # "Prompted")
                => thread[i].pc = "prompt" ]_vars

\* C19's case: a task has answered its prompt and sent its GET with the
\* prompted credentials while a sibling, which holds none, is transferring.
C19_Witness ==
    \E i, j \in Tasks :
        /\ authorisation = "None"
        /\ thread[i].pc = "get"
        /\ thread[i].auth = "Prompted"
        /\ Last(thread[i].requests) = <<"GET", "Prompted">>
        /\ rendering
        /\ thread[j].pc = "stream"
        /\ thread[j].auth = "None"
        /\ Len(thread[j].chunks) >= 1

\* run() has ended: it returned, raised Abort, or raised another error on
\* its cancellation path.
RunEnded == orch \in {"returned", "aborted", "raised"}

\* C20: there is a watchdog only in buffered mode, without it the warning
\* is never raised, and once run() has ended the event is set and the
\* watchdog, if there is one, is cancelled.
C20_WatchdogStopped ==
    /\ timer # "none" => buffer
    /\ ~buffer => (timer = "none" /\ ~WARNING_DISPLAYED)
    /\ RunEnded => (timer_event /\ timer \in {"none", "cancelled"})

\* C20's case: a buffered run whose watchdog had raised the warning, ended
\* by an error raised on the cancellation path while a task was running.
C20_Witness ==
    /\ buffer
    /\ interrupted
    /\ orch = "raised"
    /\ WARNING_DISPLAYED
    /\ timer = "cancelled"
    /\ timer_event
    /\ \E i \in Tasks : ~done(i)
====
